---------------------------- MODULE Spec2Model ----------------------------
(***************************************************************************)
(* AI Leaf Analyzer (src/src/App.jsx): the request pipeline of the App     *)
(* component -- fileToBase64, fetchWithRetry, analyzeLeaf -- and the UI    *)
(* handlers that share the component state with it.                        *)
(*                                                                         *)
(* Specifications:                                                         *)
(*   FetchSpec : one direct call fetchWithRetry(url, options, maxRetries)  *)
(*               for every maxRetries in 0..MaxRetriesBound, against a     *)
(*               network that answers each request in any way.             *)
(*   FairFetchSpec : FetchSpec where every fetch settles and timer fires.  *)
(*   EncodeSpec : one call fileToBase64(file) on every small asset.        *)
(*   Spec      : the App component; analyzeLeaf calls fetchWithRetry with  *)
(*               the default maxRetries, interleaved with the UI events.   *)
(*   FairSpec  : Spec where the awaited operations of a call complete.     *)
(***************************************************************************)
EXTENDS Integers, Sequences, FiniteSets, TLC

VARIABLES
    \* ---- React state of App (useState, lines 51-55) ----
    imageFile,   \* the selected File, or NoFile (null)
    analysis,    \* a JS value; "" initially
    isLoading,   \* BOOLEAN
    err,         \* a string; "" initially
    \* ---- the running analyzeLeaf call (lines 70-129) ----
    apc,         \* "idle" | "encoding" | "fetching" | "parsing"
    callFile,    \* imageFile as captured by the callback's closure
    encoding,    \* the promise of fileToBase64(imageFile), line 81
    body,        \* what response.json() of line 111 settled with
    \* ---- the running fetchWithRetry call (lines 19-47) ----
    maxRetries,  \* the maxRetries argument
    i,           \* the loop variable
    fpc,         \* "idle" | "fetching" | "backoff" | "done"
    result,      \* how the returned promise settled
    log,         \* history of the call: requests, outcomes, timers
    \* ---- analyzeLeaf calls started and not yet finished ----
    running,
    \* ---- a call of fileToBase64 (lines 10-16) ----
    asset,        \* the File read: its bytes and its type
    readerResult, \* reader.result
    encoded       \* how the returned promise settled

appVars   == <<imageFile, analysis, isLoading, err>>
callVars  == <<apc, callFile, encoding, body>>
fetchVars == <<maxRetries, i, fpc, result, log>>
readerVars == <<asset, readerResult, encoded>>
vars      == <<imageFile, analysis, isLoading, err, apc, callFile, encoding, body,
               maxRetries, i, fpc, result, log, running, asset, readerResult, encoded>>

---------------------------------------------------------------------------
(* Bounds and program constants *)

\* largest maxRetries argument tried in FetchSpec
MaxRetriesBound == 4

\* default value of the maxRetries parameter (line 19)
DefaultMaxRetries == 4

\* base delay of the rate-limit backoff (line 27)
RateLimitBase == 1000

\* base delay of the backoff in the catch block (line 43)
CatchBase == 800

\* the rate-limit status tested at line 26
TooManyRequests == 429

\* HTTP statuses the network may answer with
Statuses == {200, 204, 403, TooManyRequests, 500}

\* the files the user can pick
Files == {"leafA", "leafB"}
NoFile == "null"

---------------------------------------------------------------------------
(* JavaScript values that reach the component state *)

JsUndefined == [t |-> "undefined", v |-> ""]
JsNull      == [t |-> "null",      v |-> ""]
JsObject    == [t |-> "object",    v |-> "{}"]
JsString(s) == [t |-> "string",    v |-> s]
JsNumber(s) == [t |-> "number",    v |-> s]
JsBoolean(s) == [t |-> "boolean",  v |-> s]

\* ToBoolean, as applied by || (line 114) and ! (line 116)
Truthy(x) ==
    CASE x.t = "string"  -> x.v # ""
      [] x.t = "number"  -> x.v \notin {"0", "NaN"}
      [] x.t = "boolean" -> x.v = "true"
      [] x.t = "object"  -> TRUE
      [] OTHER           -> FALSE

\* what a decoded response body may hold at candidates[0].content.parts[0].text
\* (JsUndefined: some link of the path is absent)
PathValues ==
    { JsUndefined, JsNull, JsObject,
      JsString(""), JsString("Neem (Azadirachta indica)"),
      JsNumber("0"), JsNumber("42"),
      JsBoolean("false"), JsBoolean("true") }

\* the messages shown to the user
PleaseUpload == "Please upload a leaf image first."
NotProperText == "AI did not return proper text. Check logs for API response structure."
FailedToAnalyze == "Failed to analyze. Please check your API configuration or network connection."

\* the promise of fileToBase64 (lines 10-16)
NotEncoding  == [state |-> "none",     of |-> NoFile]
EncPending(f)  == [state |-> "pending",  of |-> f]
EncResolved(f) == [state |-> "resolved", of |-> f]
EncRejected(f) == [state |-> "rejected", of |-> f]

\* no File is being read
NoAsset == [bytes |-> <<>>, type |-> <<>>]

\* strings of the reader are sequences of characters
JsText(chars) == [t |-> "string",    v |-> chars]
JsNoValue     == [t |-> "undefined", v |-> <<>>]
NoResult      == [t |-> "null",      v |-> <<>>]

\* the promise of a fileToBase64 call: not made, pending, resolved with a
\* value, rejected
NotCalled   == [state |-> "none",     value |-> JsNoValue]
NotSettled  == [state |-> "pending",  value |-> JsNoValue]
ResolvedWith(v) == [state |-> "resolved", value |-> v]
RejectedPromise == [state |-> "rejected", value |-> JsNoValue]

\* what response.json() settled with
NotRead     == [state |-> "none",   text |-> JsUndefined]
ParseFailed == [state |-> "failed", text |-> JsUndefined]
Parsed(v)   == [state |-> "parsed", text |-> v]

---------------------------------------------------------------------------
(* fetchWithRetry, lines 19-47 *)

\* Response.ok: the status is in the range 200-299 (read at line 24)
OkMut(status) == status = 200
Ok(status) == status \in 200..299

\* what one fetch() can settle with: a Response, or a rejection
Outcomes ==
    [kind : {"response"}, status : Statuses] \cup {[kind |-> "reject", status |-> 0]}

\* delay of the rate-limit branch, line 27
RateLimitDelayMut(k) == RateLimitBase * (k + 1)
RateLimitDelay(k) == RateLimitBase * 2^k

\* delay of the catch block, line 43
CatchDelayMut(k) == RateLimitBase * 2^k
CatchDelay(k) == CatchBase * 2^k

\* the retry condition of line 26
RetryRateLimitMut(status, k, n) == status = TooManyRequests
RetryRateLimit(status, k, n) == status = TooManyRequests /\ k < n - 1

\* the rethrow condition of line 38
LastAttemptMut(k, n) == k = n
LastAttempt(k, n) == k = n - 1

\* the loop condition of line 20
LoopCondMut(k, n) == k <= n
LoopCond(k, n) == k < n

\* the loop increment of line 20
NextIndexMut(k) == k
NextIndex(k) == k + 1

\* log entries: type, loop index at the time, and a number
\* (the status of a response, the delay of a timer, else 0)
Event(t, k, n) == [type |-> t, i |-> k, n |-> n]

\* values of `result`
Pending      == [kind |-> "pending",   status |-> 0, attempt |-> 0]
Undefined    == [kind |-> "undefined", status |-> 0, attempt |-> 0]
Returned(status, k)  == [kind |-> "response",       status |-> status, attempt |-> k]
HttpError(status, k) == [kind |-> "HttpError",      status |-> status, attempt |-> k]
TransportError(k)    == [kind |-> "TransportError", status |-> 0,      attempt |-> k]

\* The head of the for loop with loop variable k (line 20): either the body
\* starts and fetch() is called (line 22), or the loop ends and the async
\* function returns undefined (line 47).  lg is the log so far.
LoopHead(k, lg) ==
    /\ i' = k
    /\ IF LoopCond(k, maxRetries)
       THEN /\ fpc' = "fetching"
            /\ log' = Append(lg, Event("request", k, 0))
            /\ result' = Pending
       ELSE /\ fpc' = "done"
            /\ log' = lg
            /\ result' = Undefined
    /\ UNCHANGED maxRetries

\* The catch block, lines 37-45, entered with the caught error e.
CatchMut(e, lg) ==
    IF LastAttempt(i, maxRetries)
    THEN /\ fpc' = "done"
         /\ result' = e
         /\ log' = lg
         /\ UNCHANGED <<maxRetries, i>>
    ELSE /\ fpc' = "fetching"
         /\ i' = NextIndex(i)
         /\ log' = Append(Append(lg, Event("wait", i, CatchDelay(i))),
                          Event("request", NextIndex(i), 0))
         /\ UNCHANGED <<maxRetries, result>>
Catch(e, lg) ==
    IF LastAttempt(i, maxRetries)
    THEN /\ fpc' = "done"
         /\ result' = e
         /\ log' = lg
         /\ UNCHANGED <<maxRetries, i>>
    ELSE /\ fpc' = "backoff"
         /\ log' = Append(lg, Event("wait", i, CatchDelay(i)))
         /\ UNCHANGED <<maxRetries, i, result>>

\* The awaited fetch() of line 22 settles with outcome o; lines 22-45 run
\* up to the next await, return or throw.
FetchSettles(o) ==
    /\ fpc = "fetching"
    /\ IF o.kind = "reject"
       THEN Catch(TransportError(i), Append(log, Event("reject", i, 0)))
       ELSE LET lg == Append(log, Event("response", i, o.status)) IN
            IF ~Ok(o.status)
            THEN IF RetryRateLimit(o.status, i, maxRetries)
                 THEN /\ fpc' = "backoff"
                      /\ log' = Append(lg, Event("wait", i, RateLimitDelay(i)))
                      /\ UNCHANGED <<maxRetries, i, result>>
                 ELSE Catch(HttpError(o.status, i), lg)
            ELSE /\ fpc' = "done"
                 /\ result' = Returned(o.status, i)
                 /\ log' = lg
                 /\ UNCHANGED <<maxRetries, i>>

\* The setTimeout of line 29 or 44 fires; `continue` (line 30) or the end of
\* the catch block leads to the increment and the next loop head.
TimerFires ==
    /\ fpc = "backoff"
    /\ LoopHead(NextIndex(i), Append(log, Event("wake", i, 0)))

\* fetchWithRetry(url, options, maxRetries) is called: runs to the first await.
FetchCall ==
    /\ fpc = "idle"
    /\ LoopHead(0, <<>>)

---------------------------------------------------------------------------
(* FetchSpec: a direct call of fetchWithRetry *)

FetchInit ==
    /\ imageFile = NoFile
    /\ analysis = JsString("")
    /\ isLoading = FALSE
    /\ err = ""
    /\ apc = "idle"
    /\ callFile = NoFile
    /\ encoding = NotEncoding
    /\ body = NotRead
    /\ maxRetries \in 0..MaxRetriesBound
    /\ i = 0
    /\ fpc = "idle"
    /\ result = Pending
    /\ log = <<>>
    /\ running = 0
    /\ asset = NoAsset
    /\ readerResult = NoResult
    /\ encoded = NotCalled

FetchCallStep == FetchCall /\ UNCHANGED <<appVars, callVars, running, readerVars>>
FetchSettlesStep == (\E o \in Outcomes : FetchSettles(o)) /\ UNCHANGED <<appVars, callVars, running, readerVars>>
TimerFiresStep == TimerFires /\ UNCHANGED <<appVars, callVars, running, readerVars>>

FetchNext == FetchCallStep \/ FetchSettlesStep \/ TimerFiresStep

FetchSpec == FetchInit /\ [][FetchNext]_vars

\* every fetch settles and every timer fires
FairFetchSpec == FetchSpec /\ WF_vars(FetchNext)

---------------------------------------------------------------------------
(* The App component, lines 50-129 and the buttons of lines 192-226 *)

\* handleImage (lines 58-67) with e.target.files[0] = f (NoFile: none chosen)
HandleImage(f) ==
    /\ IF f = NoFile
       THEN UNCHANGED appVars
       ELSE /\ err' = ""
            /\ analysis' = JsString("")
            /\ imageFile' = f
            /\ UNCHANGED isLoading
    /\ UNCHANGED <<callVars, fetchVars, running, readerVars>>

\* onClick of the Reset button (lines 213-221), rendered only with an image
ResetClick ==
    /\ imageFile # NoFile
    /\ imageFile' = NoFile
    /\ analysis' = JsString("")
    /\ err' = ""
    /\ UNCHANGED <<isLoading, callVars, fetchVars, running, readerVars>>

\* the disabled attribute of the Analyze button, line 194
AnalyzeDisabledMut == imageFile = NoFile
AnalyzeDisabled == imageFile = NoFile \/ isLoading

\* the catch and finally blocks of analyzeLeaf, lines 123-128
FailMut ==
    /\ err' = FailedToAnalyze
    /\ apc' = "idle"
    /\ running' = running - 1
    /\ UNCHANGED <<imageFile, analysis, isLoading, callFile>>
Fail ==
    /\ err' = FailedToAnalyze
    /\ isLoading' = FALSE
    /\ apc' = "idle"
    /\ running' = running - 1
    /\ UNCHANGED <<imageFile, analysis, callFile>>

\* onClick of the Analyze button: analyzeLeaf runs to its first await
\* (lines 70-81); fileToBase64 starts the FileReader (lines 12-13)
AnalyzeClickMut ==
    /\ ~AnalyzeDisabled
    /\ imageFile # NoFile
    /\ isLoading' = TRUE
    /\ analysis' = JsString("")
    /\ apc' = "encoding"
    /\ callFile' = imageFile
    /\ encoding' = EncPending(imageFile)
    /\ body' = NotRead
    /\ maxRetries' = DefaultMaxRetries
    /\ i' = 0
    /\ fpc' = "idle"
    /\ result' = Pending
    /\ log' = <<>>
    /\ running' = running + 1
    /\ UNCHANGED <<imageFile, err, readerVars>>
AnalyzeClick ==
    /\ ~AnalyzeDisabled
    /\ IF imageFile = NoFile
       THEN /\ err' = PleaseUpload
            /\ UNCHANGED <<imageFile, analysis, isLoading, callVars, fetchVars, running>>
       ELSE /\ isLoading' = TRUE
            /\ err' = ""
            /\ analysis' = JsString("")
            /\ apc' = "encoding"
            /\ callFile' = imageFile
            /\ encoding' = EncPending(imageFile)
            /\ body' = NotRead
            /\ maxRetries' = DefaultMaxRetries
            /\ i' = 0
            /\ fpc' = "idle"
            /\ result' = Pending
            /\ log' = <<>>
            /\ running' = running + 1
            /\ UNCHANGED imageFile
    /\ UNCHANGED readerVars

\* reader.onload (line 14): the promise resolves, analyzeLeaf builds the
\* payload and calls fetchWithRetry with the default maxRetries (lines 83-109)
FileReadLoad ==
    /\ apc = "encoding"
    /\ encoding' = EncResolved(callFile)
    /\ apc' = "fetching"
    /\ FetchCall
    /\ UNCHANGED <<appVars, callFile, body, running, readerVars>>

\* reader.onerror (line 15): the promise rejects, caught at line 123
FileReadErrorMut ==
    /\ apc = "encoding"
    /\ encoding' = EncRejected(callFile)
    /\ apc' = "fetching"
    /\ FetchCall
    /\ UNCHANGED <<appVars, callFile, body, running, readerVars>>
FileReadError ==
    /\ apc = "encoding"
    /\ encoding' = EncRejected(callFile)
    /\ Fail
    /\ UNCHANGED <<body, fetchVars, readerVars>>

\* the promise of fetchWithRetry has settled: line 105 resumes.  A response
\* leads to response.json() (line 111); a rejection, or the TypeError of
\* reading .json of undefined, leads to the catch block.
AfterFetch ==
    /\ apc = "fetching"
    /\ fpc = "done"
    /\ IF result.kind = "response"
       THEN /\ apc' = "parsing"
            /\ UNCHANGED <<appVars, callFile, running>>
       ELSE Fail
    /\ UNCHANGED <<encoding, body, fetchVars, readerVars>>

\* the text taken from the decoded body, lines 113-114
ExtractText(v) == IF Truthy(v) THEN v ELSE JsNull

\* response.json() settles with b (line 111); lines 113-128 run
JsonSettles(b) ==
    /\ apc = "parsing"
    /\ body' = b
    /\ IF b.state = "failed"
       THEN Fail
       ELSE /\ IF ~Truthy(ExtractText(b.text))
               THEN /\ err' = NotProperText
                    /\ UNCHANGED analysis
               ELSE /\ analysis' = ExtractText(b.text)
                    /\ UNCHANGED err
            /\ isLoading' = FALSE
            /\ apc' = "idle"
            /\ running' = running - 1
            /\ UNCHANGED <<imageFile, callFile>>
    /\ UNCHANGED <<encoding, fetchVars, readerVars>>

Init ==
    /\ imageFile = NoFile
    /\ analysis = JsString("")
    /\ isLoading = FALSE
    /\ err = ""
    /\ apc = "idle"
    /\ callFile = NoFile
    /\ encoding = NotEncoding
    /\ body = NotRead
    /\ maxRetries = DefaultMaxRetries
    /\ i = 0
    /\ fpc = "idle"
    /\ result = Pending
    /\ log = <<>>
    /\ running = 0
    /\ asset = NoAsset
    /\ readerResult = NoResult
    /\ encoded = NotCalled

SelectImage == \E f \in Files \cup {NoFile} : HandleImage(f)
JsonSettlesStep == \E b \in {ParseFailed} \cup {Parsed(v) : v \in PathValues} : JsonSettles(b)

Next ==
    \/ SelectImage
    \/ ResetClick
    \/ AnalyzeClick
    \/ FileReadLoad
    \/ FileReadError
    \/ FetchSettlesStep
    \/ TimerFiresStep
    \/ AfterFetch
    \/ JsonSettlesStep

Spec == Init /\ [][Next]_vars

\* the file read, every fetch, every backoff timer and the reading of the
\* response body complete; the user's events are under no obligation
FairSpec ==
    /\ Spec
    /\ WF_vars(FileReadLoad \/ FileReadError)
    /\ WF_vars(FetchSettlesStep)
    /\ WF_vars(TimerFiresStep)
    /\ WF_vars(AfterFetch)
    /\ WF_vars(JsonSettlesStep)

---------------------------------------------------------------------------
(* fileToBase64, lines 10-16 *)

\* longest asset read in EncodeSpec
MaxBytes == 3

\* byte values the assets are made of
ByteValues == {0, 1, 127, 128, 255}

\* the declared types of the assets
Types ==
    { <<"i", "m", "a", "g", "e", "/", "p", "n", "g">>,
      <<"i", "m", "a", "g", "e", "/", "j", "p", "e", "g">> }

Assets ==
    [bytes : UNION {[1..n -> ByteValues] : n \in 0..MaxBytes}, type : Types]

\* the base64 alphabet of the data URL
Alphabet ==
    << "A", "B", "C", "D", "E", "F", "G", "H", "I", "J", "K", "L", "M",
       "N", "O", "P", "Q", "R", "S", "T", "U", "V", "W", "X", "Y", "Z",
       "a", "b", "c", "d", "e", "f", "g", "h", "i", "j", "k", "l", "m",
       "n", "o", "p", "q", "r", "s", "t", "u", "v", "w", "x", "y", "z",
       "0", "1", "2", "3", "4", "5", "6", "7", "8", "9", "+", "/" >>

Digit(n) == Alphabet[n + 1]

\* the base64 text of a byte sequence: three bytes give four digits, a rest
\* of one or two bytes is padded with "="
RECURSIVE Base64(_)
Base64(b) ==
    IF Len(b) = 0 THEN <<>>
    ELSE IF Len(b) = 1 THEN
        << Digit(b[1] \div 4), Digit((b[1] % 4) * 16), "=", "=" >>
    ELSE IF Len(b) = 2 THEN
        << Digit(b[1] \div 4), Digit((b[1] % 4) * 16 + b[2] \div 16),
           Digit((b[2] % 16) * 4), "=" >>
    ELSE
        << Digit(b[1] \div 4), Digit((b[1] % 4) * 16 + b[2] \div 16),
           Digit((b[2] % 16) * 4 + b[3] \div 64), Digit(b[3] % 64) >>
        \o Base64(SubSeq(b, 4, Len(b)))

\* What reader.readAsDataURL(file) (line 13) leaves in reader.result: the
\* data URL of the File API.  For an empty file the result depends on the
\* browser: the data URL with an empty data part, or the bare "data:" that
\* Chromium's FileReader produces when no byte was loaded.
DataURLs(a) ==
    LET full == <<"d", "a", "t", "a", ":">> \o a.type
                \o <<";", "b", "a", "s", "e", "6", "4", ",">> \o Base64(a.bytes)
    IN  IF a.bytes = <<>>
        THEN {full, <<"d", "a", "t", "a", ":">>}
        ELSE {full}

\* String.prototype.split with a one-character separator
RECURSIVE Split(_, _)
Split(str, sep) ==
    IF \E k \in 1..Len(str) : str[k] = sep
    THEN LET first == CHOOSE k \in 1..Len(str) :
                         str[k] = sep /\ \A j \in 1..(k - 1) : str[j] # sep
         IN  <<SubSeq(str, 1, first - 1)>> \o Split(SubSeq(str, first + 1, Len(str)), sep)
    ELSE <<str>>

\* arr[k] of a JavaScript array (0-based; undefined past the end)
ElementAt(arr, k) == IF k + 1 <= Len(arr) THEN JsText(arr[k + 1]) ELSE JsNoValue

\* reader.result.split(",")[1], line 14
DataPart(url) == ElementAt(Split(url, ","), 1)

\* fileToBase64(file) is called: the reader starts reading (lines 11-13)
FileToBase64Call ==
    /\ encoded = NotCalled
    /\ encoded' = NotSettled
    /\ UNCHANGED <<appVars, callVars, fetchVars, running, asset, readerResult>>

\* the load event: reader.onload resolves the promise (line 14)
ReaderLoad ==
    /\ encoded = NotSettled
    /\ \E url \in DataURLs(asset) :
          /\ readerResult' = JsText(url)
          /\ encoded' = ResolvedWith(DataPart(url))
    /\ UNCHANGED <<appVars, callVars, fetchVars, running, asset>>

\* the error event: reader.onerror rejects the promise (line 15)
ReaderError ==
    /\ encoded = NotSettled
    /\ encoded' = RejectedPromise
    /\ UNCHANGED <<appVars, callVars, fetchVars, running, asset, readerResult>>

\* EncodeSpec: one call of fileToBase64 on every asset of at most MaxBytes bytes
EncodeInit ==
    /\ imageFile = NoFile
    /\ analysis = JsString("")
    /\ isLoading = FALSE
    /\ err = ""
    /\ apc = "idle"
    /\ callFile = NoFile
    /\ encoding = NotEncoding
    /\ body = NotRead
    /\ maxRetries = DefaultMaxRetries
    /\ i = 0
    /\ fpc = "idle"
    /\ result = Pending
    /\ log = <<>>
    /\ running = 0
    /\ asset \in Assets
    /\ readerResult = NoResult
    /\ encoded = NotCalled

EncodeNext == FileToBase64Call \/ ReaderLoad \/ ReaderError

EncodeSpec == EncodeInit /\ [][EncodeNext]_vars

---------------------------------------------------------------------------
(* Reading the history of a fetchWithRetry call *)

\* the events of lg of type t
EventsOf(lg, t) == SelectSeq(lg, LAMBDA e : e.type = t)

\* number of network requests issued
Requests(lg) == Len(EventsOf(lg, "request"))

\* the delays waited, in order
Waits(lg) == [k \in 1..Len(EventsOf(lg, "wait")) |-> EventsOf(lg, "wait")[k].n]

\* the statuses of the responses received, in order (0 for a rejected fetch)
Answers(lg) ==
    LET a == SelectSeq(lg, LAMBDA e : e.type \in {"response", "reject"})
    IN  [k \in 1..Len(a) |-> a[k].n]

SuccessStatus(s) == s >= 200 /\ s <= 299

Rejected(r) == r.kind \in {"HttpError", "TransportError"}

---------------------------------------------------------------------------
(* Claims about fetchWithRetry, checked under FetchSpec *)

\* C1 (as claimed): a non-OK response whose status is not 429 ends the call
\* at once with the HTTP error of that status: it is the last event of the
\* call, no backoff wait and no further request follow it.
C1_NonRateLimitErrorIsFatal ==
    \A k \in 1..Len(log) :
        (log[k].type = "response" /\ ~SuccessStatus(log[k].n) /\ log[k].n # 429)
            => /\ k = Len(log)
               /\ fpc = "done"
               /\ result = HttpError(log[k].n, log[k].i)

\* C2: one call issues at most maxRetries network requests, whatever the
\* outcomes of the attempts are.
C2_BoundedAttempts == Requests(log) <= maxRetries

C2_Witness ==
    /\ fpc = "done"
    /\ maxRetries = 4
    /\ Requests(log) = maxRetries
    /\ \E a, b, c \in 1..Len(log) :
          /\ log[a].type = "reject"
          /\ log[b].type = "response" /\ log[b].n = 429
          /\ log[c].type = "response" /\ log[c].n = 500

\* C3: with maxRetries >= 1 the call ends, and it ends either resolved with
\* a response whose ok flag is true or rejected with an error; the promise is
\* pending until then and settled once; a 429 or a transport failure is
\* what the caller receives only if it is that of the last allowed attempt.
C3_TerminalOutcome ==
    maxRetries >= 1 =>
        /\ (fpc # "done" => result = Pending)
        /\ (fpc = "done" =>
              /\ \/ result.kind = "response" /\ SuccessStatus(result.status)
                 \/ Rejected(result)
              /\ (result.kind = "TransportError"
                    \/ (result.kind = "HttpError" /\ result.status = 429))
                 => result.attempt = maxRetries - 1)

C3_OneTerminalOutcome ==
    /\ <>(fpc = "done")
    /\ []C3_TerminalOutcome
    /\ [][fpc = "done" => result' = result]_vars

C3_Witness ==
    /\ fpc = "done"
    /\ maxRetries >= 3
    /\ result.kind = "response"
    /\ \E a, b \in 1..Len(log) :
          /\ log[a].type = "reject"
          /\ log[b].type = "response" /\ log[b].n = 429

\* C4: a 429 at loop index j < maxRetries-1 is followed by a wait of exactly
\* 1000 * 2^j ms and then by the request of index j+1; maxRetries successive
\* 429 responses give the maxRetries-1 waits 1000, 2000, 4000, ...; and the
\* answers 429, 429, 200 with maxRetries = 4 give the waits 1000, 2000, three
\* requests, and the third response as the result.
C4_RateLimitBackoff ==
    /\ \A k \in 1..Len(log) :
         (log[k].type = "response" /\ log[k].n = 429 /\ log[k].i < maxRetries - 1)
            => /\ k < Len(log)
               /\ log[k + 1] = Event("wait", log[k].i, 1000 * 2^(log[k].i))
               /\ k + 2 <= Len(log) => log[k + 2].type = "wake"
               /\ k + 3 <= Len(log) => log[k + 3] = Event("request", log[k].i + 1, 0)
    /\ (fpc = "done" /\ Len(Answers(log)) = maxRetries
          /\ \A k \in 1..Len(Answers(log)) : Answers(log)[k] = 429)
         => Waits(log) = [k \in 1..(maxRetries - 1) |-> 1000 * 2^(k - 1)]
    /\ (maxRetries = 4 /\ Answers(log) = <<429, 429, 200>>)
         => /\ Waits(log) = <<1000, 2000>>
            /\ Requests(log) = 3
            /\ fpc = "done"
            /\ result = Returned(200, 2)

C4_Witness ==
    /\ fpc = "done"
    /\ maxRetries = 4
    /\ Answers(log) = <<429, 429, 429, 429>>
    /\ Waits(log) = <<1000, 2000, 4000>>

\* C5: a transport failure at loop index j < maxRetries-1 is followed by a
\* wait of exactly 800 * 2^j ms and then by the request of index j+1; four
\* transport failures with maxRetries = 4 give the waits 800, 1600, 3200 and
\* the call rejects with the transport error of the fourth attempt.
C5_TransportBackoff ==
    /\ \A k \in 1..Len(log) :
         (log[k].type = "reject" /\ log[k].i < maxRetries - 1)
            => /\ k < Len(log)
               /\ log[k + 1] = Event("wait", log[k].i, 800 * 2^(log[k].i))
               /\ k + 2 <= Len(log) => log[k + 2].type = "wake"
               /\ k + 3 <= Len(log) => log[k + 3] = Event("request", log[k].i + 1, 0)
    /\ (maxRetries = 4 /\ Len(EventsOf(log, "reject")) = 4)
         => /\ Waits(log) = <<800, 1600, 3200>>
            /\ fpc = "done"
            /\ result = TransportError(3)

C5_Witness ==
    /\ fpc = "done"
    /\ maxRetries = 4
    /\ Len(EventsOf(log, "reject")) = 4
    /\ result = TransportError(3)

\* C6: a response with a success status ends the call at once with that very
\* response: it is the last event of the call (no wait, no request after it);
\* success on the first attempt means one request and no wait.
C6_SuccessShortCircuits ==
    /\ \A k \in 1..Len(log) :
         (log[k].type = "response" /\ SuccessStatus(log[k].n))
            => /\ k = Len(log)
               /\ fpc = "done"
               /\ result = Returned(log[k].n, log[k].i)
    /\ (Len(Answers(log)) >= 1 /\ SuccessStatus(Answers(log)[1]))
         => Requests(log) = 1 /\ Waits(log) = <<>>

C6_Witness ==
    /\ fpc = "done"
    /\ result = Returned(204, 2)
    /\ Requests(log) = 3

\* C7: when all maxRetries attempts are used up and the call rejects, the
\* error is that of the last attempt: a 429 on the last allowed attempt gives
\* the HTTP error with status 429 and no wait after it, a transport failure
\* on the last allowed attempt gives that attempt's transport error.
C7_LastOutcomeReported ==
    /\ \A k \in 1..Len(log) :
         (log[k].i = maxRetries - 1 /\ log[k].type = "response" /\ log[k].n = 429)
            => k = Len(log) /\ fpc = "done" /\ result = HttpError(429, maxRetries - 1)
    /\ \A k \in 1..Len(log) :
         (log[k].i = maxRetries - 1 /\ log[k].type = "reject")
            => k = Len(log) /\ fpc = "done" /\ result = TransportError(maxRetries - 1)
    /\ (fpc = "done" /\ Rejected(result) /\ Requests(log) = maxRetries)
         => /\ result.attempt = maxRetries - 1
            /\ result.kind = "HttpError" =>
                  log[Len(log)] = Event("response", maxRetries - 1, result.status)
            /\ result.kind = "TransportError" =>
                  log[Len(log)] = Event("reject", maxRetries - 1, 0)

C7_Witness ==
    /\ fpc = "done"
    /\ maxRetries = 4
    /\ Answers(log) = <<0, 429, 0, 429>>
    /\ result = HttpError(429, 3)

---------------------------------------------------------------------------
(* Claims about analyzeLeaf, checked under Spec *)

\* C8 (as claimed): after a call whose response was decoded, a value at
\* candidates[0].content.parts[0].text that is absent or is not text leaves
\* the analysis unset and the error, if one is still shown, is the
\* malformed-response message, never the transport/HTTP message; the
\* analysis is set only when the value at that path is text.
C8_MalformedResponseReported ==
    (apc = "idle" /\ body.state = "parsed") =>
        /\ body.text.t # "string" =>
              /\ analysis = JsString("")
              /\ err \in {NotProperText, ""}
        /\ analysis # JsString("") => body.text.t = "string"

\* C9: no network request is issued before fileToBase64 has resolved: while
\* the file is being read the call has issued nothing, any request or wait
\* of the call comes after the encoding result, and a call whose encoding
\* failed ends with zero requests and zero waits.
C9_EncodeBeforeNetwork ==
    /\ apc = "encoding" => (encoding.state = "pending" /\ log = <<>>)
    /\ log # <<>> => encoding = EncResolved(callFile)
    /\ encoding.state = "rejected" =>
          /\ apc = "idle"
          /\ Requests(log) = 0
          /\ Waits(log) = <<>>

C9_Witness ==
    /\ encoding.state = "rejected"
    /\ apc = "idle"
    /\ ~isLoading
    /\ err = FailedToAnalyze
    /\ log = <<>>

\* C10 (as claimed): the error shown for an unreadable asset is neither the
\* message of a terminal transport/HTTP failure nor that of a malformed
\* response.
C10_EncodingErrorDistinct ==
    (apc = "idle" /\ encoding.state = "rejected") =>
        err \notin {FailedToAnalyze, NotProperText}

---------------------------------------------------------------------------
(* Further claims about fetchWithRetry, checked under FetchSpec *)

\* requests issued and not yet settled
InFlight(lg) == Requests(lg) - Len(Answers(lg))

\* backoff timers set and not yet fired
TimersPending(lg) == Len(EventsOf(lg, "wait")) - Len(EventsOf(lg, "wake"))

\* C11: at most one request is in flight at any time; a request other than
\* the first is issued only when the backoff timer set after the previous
\* outcome fires; while a backoff timer is pending no request is outstanding.
C11_OneRequestInFlight ==
    /\ InFlight(log) \in {0, 1}
    /\ TimersPending(log) \in {0, 1}
    /\ InFlight(log) + TimersPending(log) <= 1
    /\ InFlight(log) = 1 <=> fpc = "fetching"
    /\ TimersPending(log) = 1 <=> fpc = "backoff"
    /\ \A k \in 1..Len(log) :
         log[k].type = "request" =>
            \/ k = 1
            \/ /\ k >= 4
               /\ log[k - 1].type = "wake"
               /\ log[k - 2].type = "wait"
               /\ log[k - 3].type \in {"response", "reject"}

C11_Witness ==
    /\ fpc = "backoff"
    /\ Requests(log) = 3
    /\ InFlight(log) = 0
    /\ TimersPending(log) = 1

\* the requests and waits of lg, in order
Alternation(lg) == SelectSeq(lg, LAMBDA e : e.type \in {"request", "wait"})

\* C13: with maxRetries >= 1, requests and waits strictly alternate, starting
\* with a request; a wait is followed by exactly one further request; no wait
\* follows the attempt that ends the call, so that at the end the number of
\* waits is the number of requests minus one.
C13_WaitsAlternate ==
    maxRetries >= 1 =>
        LET a == Alternation(log) IN
        /\ \A k \in 1..Len(a) :
             a[k].type = (IF k % 2 = 1 THEN "request" ELSE "wait")
        /\ fpc = "done" =>
             /\ Len(a) >= 1
             /\ a[Len(a)].type = "request"
             /\ Len(Waits(log)) = Requests(log) - 1
        /\ fpc = "fetching" => Len(Waits(log)) = Requests(log) - 1
        /\ fpc = "backoff" => Len(Waits(log)) = Requests(log)

C13_Witness ==
    /\ fpc = "done"
    /\ maxRetries = 4
    /\ Requests(log) = 4
    /\ Len(Waits(log)) = 3
    /\ Rejected(result)

\* C18: with maxRetries = 0 the call issues no request and no wait and
\* resolves with undefined (no response, no rejection); with any other
\* maxRetries, the default 4 that analyzeLeaf uses among them, it never
\* resolves with undefined.
C18_ZeroRetries ==
    /\ maxRetries = 0 =>
          /\ log = <<>>
          /\ fpc \in {"idle", "done"}
          /\ fpc = "done" => result = Undefined
          /\ fpc # "done" => result = Pending
    /\ maxRetries >= 1 => result # Undefined
    /\ maxRetries = DefaultMaxRetries => result # Undefined

C18_Witness ==
    /\ maxRetries = 0
    /\ fpc = "done"
    /\ result = Undefined
    /\ log = <<>>

---------------------------------------------------------------------------
(* Claims about the App component, checked under Spec and FairSpec *)

\* C14 (as claimed): an analysis text or an error message of a call is shown
\* only for the image that call was started on: whenever either is on
\* display, the selected image is the one the last call captured.
C14_ResultBelongsToImage ==
    /\ analysis # JsString("") => imageFile = callFile
    /\ err \in {NotProperText, FailedToAnalyze} => imageFile = callFile

\* C15: err and analysis are never both non-empty.
C15_ErrorXorAnalysis == ~(err # "" /\ analysis # JsString(""))

C15_Witness ==
    /\ apc = "idle"
    /\ body.state = "parsed"
    /\ analysis = JsString("Neem (Azadirachta indica)")
    /\ err = ""
    /\ Requests(log) >= 2

\* C16: a call that has set isLoading to true sets it back to false on every
\* path, given that the file read, the fetches, the timers and the body read
\* complete; and at the step that sets it back exactly one of analysis and
\* err holds a value written by the call.
C16_LoadingEnds ==
    /\ isLoading ~> ~isLoading
    /\ [][(isLoading /\ ~isLoading') =>
            ((analysis' # JsString("")) # (err' # ""))]_vars

C16_Witness ==
    /\ ~isLoading
    /\ apc = "idle"
    /\ body = ParseFailed
    /\ err = FailedToAnalyze
    /\ analysis = JsString("")

\* C17: at most one analyzeLeaf call is in progress: the Analyze button is
\* disabled while isLoading is true or no image is selected, isLoading is
\* true exactly while a call runs, and selecting another image or pressing
\* Reset during a call does not enable a second one.
C17_OneCallAtATime ==
    /\ running \in {0, 1}
    /\ isLoading <=> running = 1
    /\ isLoading <=> apc # "idle"
    /\ (isLoading \/ imageFile = NoFile) => AnalyzeDisabled
    /\ ~AnalyzeDisabled => (running = 0 /\ apc = "idle")

C17_Witness ==
    /\ running = 1
    /\ apc = "fetching"
    /\ imageFile # NoFile
    /\ imageFile # callFile

---------------------------------------------------------------------------
(* Claim about fileToBase64, checked under EncodeSpec *)

\* the number a base64 digit stands for
Sextet(c) == CHOOSE n \in 0..63 : Digit(n) = c

\* the bytes a sequence of sextets stands for
RECURSIVE BytesOf(_)
BytesOf(q) ==
    IF Len(q) < 2 THEN <<>>
    ELSE IF Len(q) = 2 THEN << q[1] * 4 + q[2] \div 16 >>
    ELSE IF Len(q) = 3 THEN
        << q[1] * 4 + q[2] \div 16, (q[2] % 16) * 16 + q[3] \div 4 >>
    ELSE
        << q[1] * 4 + q[2] \div 16, (q[2] % 16) * 16 + q[3] \div 4,
           (q[3] % 4) * 64 + q[4] >>
        \o BytesOf(SubSeq(q, 5, Len(q)))

\* base64 decoding of a text: the padding is dropped, the digits are read
Decode(text) ==
    LET digits == SelectSeq(text, LAMBDA c : c # "=")
    IN  BytesOf([k \in 1..Len(digits) |-> Sextet(digits[k])])

\* C12 (as claimed): for every byte sequence, the empty one included, the
\* value fileToBase64 resolves with is a string that decodes from base64 to
\* exactly those bytes, and it is determined by the bytes alone.
C12_RoundTrip ==
    encoded.state = "resolved" =>
        /\ encoded.value.t = "string"
        /\ Decode(encoded.value.v) = asset.bytes
        /\ encoded.value = JsText(Base64(asset.bytes))

===========================================================================
